---------------------------- MODULE Spec2Model ----------------------------
(***************************************************************************)
(* Model of semantic_cloud/src/semantic_cloud.py: the SemanticCloud node.  *)
(*                                                                         *)
(* Spec          main(): construction of SemanticCloud, then rospy.spin()  *)
(*               with the callbacks rospy delivers from the moment each    *)
(*               subscription is registered                                *)
(* SpecColorMap  calls of color_map                                        *)
(* SpecRemap     calls of remap_classes_bool_indexing and of the label     *)
(*               part of predict_max                                       *)
(* SpecSync      image and scan arrivals at the ApproximateTimeSynchronizer*)
(*               that __init__ sets up                                     *)
(* SpecFrame     a constructed node: color_lidar_callback on synchronized  *)
(*               pairs, intrinsics_calback and consumers of the semantic   *)
(*               image running beside it                                   *)
(*                                                                         *)
(* Real numbers are fixed point: Unit (100) stands for 1.0, so a matrix    *)
(* entry is an integer number of hundredths.                               *)
(***************************************************************************)
EXTENDS Integers, Sequences, FiniteSets, TLC

VARIABLES
    param_point_type,   \* rospy param /semantic_pcl/point_type
    param_extrinsics,   \* rospy param /camera/extrinsics, after json.loads
    pc,                 \* position of main() / SemanticCloud.__init__
    point_type,         \* self.point_type ("unset" until assigned)
    extrinsics,         \* self.extrinsics (<<>> until assigned)
    attrs,              \* the ROS objects __init__ has created so far
    cb_log,             \* the callbacks that have ended, each with the
                        \* attributes it read that did not exist yet
    cb_pc,              \* position of color_lidar_callback on its thread
    cm_N,               \* color_map: the argument N of the first call
    cm_calls,           \* color_map: the number of calls made
    cm_first,           \* color_map: the table a first call returned
    cm_second,          \* color_map: the table a second call returned
    rm_pc,              \* remap: "start", then which call was made
    rm_remap,           \* remap: the table (/semantic_pcl/class_remap)
    rm_input,           \* remap: the label map or probability map given
    rm_background,      \* remap: the background_value argument
    rm_output,          \* remap: what the call returned
    sync_queue,         \* synchronizer: the unpaired messages of each stream
    sync_count,         \* synchronizer: the messages arrived on each stream
    sync_stamp,         \* synchronizer: the stamp of each stream's last message
    sync_calls,         \* synchronizer: the pairs the callback was called with
    fr_mode,            \* frames: self.point_type of the constructed node
    fr_extrinsics,      \* frames: self.extrinsics of the constructed node
    fr_pc,              \* frames: position of color_lidar_callback
    fr,                 \* frames: the frame in hand: inputs, locals, effects
    prev_exception,     \* frames: how the frame before it ended
    buffers,            \* frames: self.semantic_colors and self.confidences
    gen_intrinsic,      \* frames: the matrix the cloud generator was last given
    in_pc,              \* frames: position of intrinsics_calback
    in_K,               \* frames: intrinsics_calback's local K
    n_calib,            \* frames: the calibration messages delivered
    num_connections     \* frames: sem_img_pub.get_num_connections()

ctorVars == <<param_point_type, param_extrinsics, pc, point_type, extrinsics, attrs,
              cb_log, cb_pc>>

cmVars == <<cm_N, cm_calls, cm_first, cm_second>>

rmVars == <<rm_pc, rm_remap, rm_input, rm_background, rm_output>>

syncVars == <<sync_queue, sync_count, sync_stamp, sync_calls>>

frVars == <<fr_mode, fr_extrinsics, fr_pc, fr, prev_exception, buffers,
            gen_intrinsic, in_pc, in_K, n_calib, num_connections>>

vars == <<ctorVars, cmVars, rmVars, syncVars, frVars>>

---------------------------------------------------------------------------
(* Fixed-point arithmetic and matrices                                     *)

Unit == 10 * 10

Abs(x) == IF x < 0 THEN -x ELSE x

\* numpy's ndarray.shape of a matrix given as a sequence of rows
Shape(m) == <<Len(m), Len(m[1])>>

\* self.extrinsics[:3, :3]
TopLeft3(m) == [i \in 1..3 |-> [j \in 1..3 |-> m[i][j]]]

\* np.linalg.det of a 3x3 matrix; the result is in units of 1/Unit^3
Det3(r) ==
      r[1][1] * (r[2][2] * r[3][3] - r[2][3] * r[3][2])
    - r[1][2] * (r[2][1] * r[3][3] - r[2][3] * r[3][1])
    + r[1][3] * (r[2][1] * r[3][2] - r[2][2] * r[3][1])

\* np.allclose(det, 1) with numpy's defaults rtol = 1e-5, atol = 1e-8:
\*   |det - 1| <= 1e-8 + 1e-5 * |1|
\* with det = d / Unit^3 and both sides multiplied by 1e8 and divided by
\* Unit^3 = 1e6 this is  |d - Unit^3| * 100 <= 1001.
AllCloseToOne(d) == Abs(d - Unit * Unit * Unit) * 100 <= 1001

---------------------------------------------------------------------------
(* Construction: SemanticCloud.__init__ and main                           *)

\* PointType.COLOR, PointType.SEMANTICS_MAX, PointType.SEMANTICS_BAYESIAN
COLOR == "COLOR"
SEMANTICS_MAX == "SEMANTICS_MAX"
SEMANTICS_BAYESIAN == "SEMANTICS_BAYESIAN"

\* The values the point_type parameter is drawn from: the three recognized
\* ones and two unrecognized ones.
PointTypeParams == {-1, 0, 1, 2, 3}

\* Rotation blocks the extrinsics parameter is drawn from:
\*   [[a, s, 0], [0, b, t], [u, 0, c]]   with determinant a*b*c + s*t*u
\* which holds the identity, reflections, 2 x identity, the scaling
\* diag(2, 0.5, 1), the shear s = 1.0 and the near-identity s = t = u = 0.01;
\* and the rotation by 90 degrees about z.
Block(a, b, c, s, t, u) == << <<a, s, 0>>, <<0, b, t>>, <<u, 0, c>> >>

RotZ90 == << <<0, -Unit, 0>>, <<Unit, 0, 0>>, <<0, 0, Unit>> >>

Blocks ==
    {Block(a, b, c, s, t, u) :
        a \in {-Unit, Unit, 2 * Unit},
        b \in {Unit, Unit \div 2, 2 * Unit},
        c \in {-Unit, Unit, 2 * Unit},
        s \in {0, 1, Unit},
        t \in {0, 1},
        u \in {0, 1}}
    \cup {RotZ90}

\* A 4x4 homogeneous transform around a rotation block (zero translation)
Homogeneous(r) ==
    << r[1] \o <<0>>, r[2] \o <<0>>, r[3] \o <<0>>, <<0, 0, 0, Unit>> >>

\* The same block with a row of zeros under it: a 4x3 matrix
FourByThree(r) == << r[1], r[2], r[3], <<0, 0, 0>> >>

\* json.loads(extrinsics_str) as a matrix: 4x4, 3x3 or 4x3
ExtrinsicsParams ==
    {Homogeneous(r) : r \in Blocks} \cup Blocks \cup {FourByThree(r) : r \in Blocks}

\* ExtrinsicsOK with the sign of the determinant lost
ExtrinsicsOK_absdet(m) ==
    /\ Shape(m) = <<4, 4>>
    /\ AllCloseToOne(Abs(Det3(TopLeft3(m))))

\* lines 135-139: the shape test and the determinant test; TRUE when neither
\* raises ValueError
ExtrinsicsOK(m) ==
    /\ Shape(m) = <<4, 4>>
    /\ AllCloseToOne(Det3(TopLeft3(m)))

\* The ROS objects a callback can be delivered through
Subscribers == {"color_sub", "lidar_sub", "intrinsics_sub"}

CtorInit ==
    /\ param_point_type \in PointTypeParams
    /\ param_extrinsics \in ExtrinsicsParams
    /\ pc = "get_point_type"
    /\ point_type = "unset"
    /\ extrinsics = <<>>
    /\ attrs = {}
    /\ cb_log = {} /\ cb_pc = "idle"

\* lines 109-122: an unrecognized point_type prints and returns from
\* __init__; main (line 483-485) then goes on to rospy.spin()
GetPointType ==
    /\ pc = "get_point_type"
    /\ IF param_point_type = 0
         THEN point_type' = COLOR /\ pc' = "get_extrinsics"
       ELSE IF param_point_type = 1
         THEN point_type' = SEMANTICS_MAX /\ pc' = "get_extrinsics"
       ELSE IF param_point_type = 2
         THEN point_type' = SEMANTICS_BAYESIAN /\ pc' = "get_extrinsics"
       ELSE point_type' = point_type /\ pc' = "returned"
    /\ UNCHANGED <<cb_log, cb_pc, param_point_type, param_extrinsics, extrinsics, attrs>>

\* lines 123-139: self.extrinsics is assigned, then validated; a ValueError
\* leaves __init__ and main, which does not catch it
GetExtrinsics ==
    /\ pc = "get_extrinsics"
    /\ extrinsics' = param_extrinsics
    /\ pc' = IF ExtrinsicsOK(param_extrinsics) THEN "setup_model" ELSE "raised"
    /\ UNCHANGED <<cb_log, cb_pc, param_point_type, param_extrinsics, point_type, attrs>>

\* lines 141-164: the colour map, and the CNN model unless the mode is COLOR
SetupModel ==
    /\ pc = "setup_model"
    /\ attrs' = attrs \cup {"cmap"}
                  \cup (IF point_type # COLOR THEN {"remap", "model"} ELSE {})
    /\ pc' = "declare_buffers"
    /\ UNCHANGED <<cb_log, cb_pc, param_point_type, param_extrinsics, point_type, extrinsics>>

\* lines 167-174
DeclareBuffers ==
    /\ pc = "declare_buffers"
    /\ attrs' = attrs \cup (IF point_type = SEMANTICS_BAYESIAN
                              THEN {"semantic_colors", "confidences"} ELSE {})
    /\ pc' = "create_publishers"
    /\ UNCHANGED <<cb_log, cb_pc, param_point_type, param_extrinsics, point_type, extrinsics>>

\* lines 176-201 (gen_pcl is True in main)
CreatePublishers ==
    /\ pc = "create_publishers"
    /\ attrs' = attrs \cup {"bridge", "sem_img_pub", "pcl_pub"}
    /\ pc' = "create_subscribers"
    /\ UNCHANGED <<cb_log, cb_pc, param_point_type, param_extrinsics, point_type, extrinsics>>

\* lines 202-213
CreateSubscribers ==
    /\ pc = "create_subscribers"
    /\ attrs' = attrs \cup {"color_sub", "lidar_sub"}
    /\ pc' = "create_intrinsics_sub"
    /\ UNCHANGED <<cb_log, cb_pc, param_point_type, param_extrinsics, point_type, extrinsics>>

\* lines 215-219
CreateIntrinsicsSub ==
    /\ pc = "create_intrinsics_sub"
    /\ attrs' = attrs \cup {"intrinsics_sub"}
    /\ pc' = "create_synchronizer"
    /\ UNCHANGED <<cb_log, cb_pc, param_point_type, param_extrinsics, point_type, extrinsics>>

\* lines 220-225
CreateSynchronizer ==
    /\ pc = "create_synchronizer"
    /\ attrs' = attrs \cup {"ts"}
    /\ pc' = "create_generator"
    /\ UNCHANGED <<cb_log, cb_pc, param_point_type, param_extrinsics, point_type, extrinsics>>

\* lines 227-235
CreateGenerator ==
    /\ pc = "create_generator"
    /\ attrs' = attrs \cup {"cloud_generator"}
    /\ pc' = "create_late_publishers"
    /\ UNCHANGED <<cb_log, cb_pc, param_point_type, param_extrinsics, point_type, extrinsics>>

\* lines 244-254
CreateLatePublishers ==
    /\ pc = "create_late_publishers"
    /\ attrs' = attrs \cup {"pub_predictions", "pub_vis"}
    /\ pc' = "returned"
    /\ UNCHANGED <<cb_log, cb_pc, param_point_type, param_extrinsics, point_type, extrinsics>>

\* main, lines 483-485: __init__ has returned, rospy.spin() runs
Spin ==
    /\ pc = "returned"
    /\ pc' = "spinning"
    /\ UNCHANGED <<cb_log, cb_pc, param_point_type, param_extrinsics, point_type, extrinsics, attrs>>

\* The attributes of self, among those __init__ adds to attrs, that a step
\* of a callback reads, connections being what
\* self.sem_img_pub.get_num_connections() returns (line 356):
\* intrinsics_calback reads self.cloud_generator (line 259). In
\* color_lidar_callback, predict_max and predict_bayesian read self.model
\* (line 473), self.cmap (lines 397, 438), self.remap (line 382, max mode)
\* and the two buffers (lines 437-441, Bayesian mode); the generator call
\* reads self.cloud_generator (lines 322, 331, 345) and, in the Bayesian
\* mode, the two buffers it passes (lines 348-349); publishing reads
\* self.pcl_pub (line 368) and, in the semantic modes, self.sem_img_pub
\* (line 356) and with a consumer connected the first Bayesian buffer
\* (line 363)
UsedBy(step, connections) ==
    IF step = "intrinsics_calback"
      THEN {"cloud_generator"}
    ELSE IF step = "predict"
      THEN {"model", "cmap"}
             \cup (IF point_type = SEMANTICS_MAX THEN {"remap"} ELSE {})
             \cup (IF point_type = SEMANTICS_BAYESIAN
                     THEN {"semantic_colors", "confidences"} ELSE {})
    ELSE IF step = "generate"
      THEN {"cloud_generator"}
             \cup (IF point_type = SEMANTICS_BAYESIAN
                     THEN {"semantic_colors", "confidences"} ELSE {})
    ELSE {"pcl_pub"}
           \cup (IF point_type # COLOR THEN {"sem_img_pub"} ELSE {})
           \cup (IF point_type = SEMANTICS_BAYESIAN /\ connections > 0
                   THEN {"semantic_colors"} ELSE {})

\* lines 217-219 and 256-259: once rospy.Subscriber has been created, rospy
\* runs intrinsics_calback on the topic's own thread for a message that
\* arrives, whether or not __init__ has gone on; an attribute that does
\* not exist yet is an AttributeError in the callback
intrinsics_calback ==
    /\ "intrinsics_sub" \in attrs
    /\ cb_log' = cb_log \cup {[callback |-> "intrinsics_calback",
                               missing |-> UsedBy("intrinsics_calback", 0) \ attrs]}
    /\ UNCHANGED <<param_point_type, param_extrinsics, pc, point_type, extrinsics,
                   attrs, cb_pc>>

\* lines 202-213, 220-224 and 304-320: color_sub and lidar_sub subscribe when
\* they are created, and from registerCallback on a matched pair starts
\* color_lidar_callback on a subscriber thread (the synchronizer holds its
\* lock during the callback, so one runs at a time). The messages are
\* decoded, and self.point_type (assigned at lines 111-118) chooses the
\* branch: the generator call at once in COLOR mode, inference first in
\* the semantic modes
color_lidar_callback ==
    /\ "ts" \in attrs
    /\ cb_pc = "idle"
    /\ cb_pc' = IF point_type = COLOR THEN "generate" ELSE "predict"
    /\ UNCHANGED <<param_point_type, param_extrinsics, pc, point_type, extrinsics,
                   attrs, cb_log>>

\* One step of the running color_lidar_callback: it reads the attributes
\* of the step as they are at that moment, __init__ having gone on or not
\* since the pair was delivered. A missing one is an AttributeError that
\* ends the callback; the last step ends it normally. A consumer of the
\* semantic image is connected or not (it matters to the last step only)
CallbackStep(step, next) ==
    /\ cb_pc = step
    /\ \E connections \in {0, 1} :
         LET used == UsedBy(step, connections)
         IN  IF used \subseteq attrs
               THEN /\ cb_pc' = next
                    /\ cb_log' = IF next = "idle"
                                   THEN cb_log \cup {[callback |-> "color_lidar_callback",
                                                      missing |-> {}]}
                                   ELSE cb_log
               ELSE /\ cb_pc' = "idle"
                    /\ cb_log' = cb_log \cup {[callback |-> "color_lidar_callback",
                                               missing |-> used \ attrs]}
    /\ UNCHANGED <<param_point_type, param_extrinsics, pc, point_type, extrinsics, attrs>>

\* lines 327-328 and 341-342: predict_max or predict_bayesian, with the CNN
\* inference of line 473
CallbackPredict == CallbackStep("predict", "generate")

\* lines 321-353: the call of self.cloud_generator.generate_cloud_*
CallbackGenerate == CallbackStep("generate", "publish")

\* lines 355-368: the semantic image and the cloud are published
CallbackPublish == CallbackStep("publish", "idle")

\* The construction variables of a node that is not being constructed
CtorInitIdle ==
    /\ param_point_type = 0 /\ param_extrinsics = <<>>
    /\ pc = "none" /\ point_type = "unset" /\ extrinsics = <<>> /\ attrs = {}
    /\ cb_log = {} /\ cb_pc = "idle"

CmIdle == cm_N = 0 /\ cm_calls = 0 /\ cm_first = <<>> /\ cm_second = <<>>

RmIdle ==
    /\ rm_pc = "none" /\ rm_remap = <<>> /\ rm_input = <<>>
    /\ rm_background = 0 /\ rm_output = <<>>

SyncIdle ==
    /\ sync_queue = [s \in {"color", "lidar"} |-> <<>>]
    /\ sync_count = [s \in {"color", "lidar"} |-> 0]
    /\ sync_stamp = [s \in {"color", "lidar"} |-> 0]
    /\ sync_calls = <<>>

FrIdle ==
    /\ fr_mode = "unset" /\ fr_extrinsics = <<>> /\ fr_pc = "none"
    /\ fr = <<>> /\ prev_exception = "none" /\ buffers = <<>>
    /\ gen_intrinsic = <<>> /\ in_pc = "none" /\ in_K = <<>>
    /\ n_calib = 0 /\ num_connections = 0

Init == CtorInit /\ CmIdle /\ RmIdle /\ SyncIdle /\ FrIdle

CtorNext ==
    \/ GetPointType
    \/ GetExtrinsics
    \/ SetupModel
    \/ DeclareBuffers
    \/ CreatePublishers
    \/ CreateSubscribers
    \/ CreateIntrinsicsSub
    \/ CreateSynchronizer
    \/ CreateGenerator
    \/ CreateLatePublishers
    \/ Spin
    \/ intrinsics_calback
    \/ color_lidar_callback
    \/ CallbackPredict
    \/ CallbackGenerate
    \/ CallbackPublish

Next == CtorNext /\ UNCHANGED <<cmVars, rmVars, syncVars, frVars>>

Spec == Init /\ [][Next]_vars

---------------------------------------------------------------------------
(* Claims about construction, checked under Spec                           *)

Identity3 == Block(Unit, Unit, Unit, 0, 0, 0)

TwiceIdentity3 == Block(2 * Unit, 2 * Unit, 2 * Unit, 0, 0, 0)

Shear3 == Block(Unit, Unit, Unit, Unit, 0, 0)

\* r is a rotation: its rows are orthonormal and its determinant is +1
IsRotation(r) ==
    /\ \A i, j \in 1..3 :
          r[i][1] * r[j][1] + r[i][2] * r[j][2] + r[i][3] * r[j][3]
             = (IF i = j THEN Unit * Unit ELSE 0)
    /\ Det3(r) = Unit * Unit * Unit

\* The extrinsics went through the test of lines 135-139 and passed it
ExtrinsicsAccepted ==
    extrinsics # <<>> /\ pc \notin {"get_extrinsics", "raised"}

\* C1: when point_type is not one of 0, 1, 2, construction fails, so the
\* process never reaches rospy.spin() with an undefined mode.
C1_InvalidModeNeverSpins ==
    pc = "spinning" => param_point_type \in {0, 1, 2}

\* C2 as stated: every extrinsics matrix that construction accepts holds a
\* rotation (a reflection, a scaled transform and a shear are all rejected).
C2_EveryNonRotationRejected ==
    ExtrinsicsAccepted => IsRotation(TopLeft3(extrinsics))

\* C2 amended: construction raises exactly when point_type is recognized and
\* the extrinsics are not 4x4 or the determinant of the top-left 3x3 block is
\* further than the tolerance (1e-5) from 1; it raises before any subscriber,
\* synchronizer or cloud generator exists; the identity passes and
\* 2 x identity is rejected. (A shear of determinant 1 passes.)
C2_DeterminantValidation ==
    LET m == param_extrinsics
        good == /\ Len(m) = 4 /\ \A i \in 1..4 : Len(m[i]) = 4
                /\ Abs(Det3(TopLeft3(m)) - 1000000) <= 10
        tested == pc \notin {"get_point_type", "get_extrinsics"}
                     /\ param_point_type \in {0, 1, 2}
    IN  /\ pc = "raised" =>
              /\ tested /\ ~good
              /\ attrs \cap (Subscribers \cup {"ts", "cloud_generator"}) = {}
        /\ tested /\ ~good => pc = "raised"
        /\ tested /\ m = Homogeneous(Identity3) => pc # "raised"
        /\ tested /\ m = Homogeneous(TwiceIdentity3) => pc = "raised"
        /\ tested /\ m = Homogeneous(Shear3) => pc # "raised"

\* C2 witness: 2 x identity was rejected
C2_Witness ==
    pc = "raised" /\ param_extrinsics = Homogeneous(TwiceIdentity3)

\* C11: under every interleaving of message arrivals with construction,
\* neither intrinsics_calback nor color_lidar_callback runs before the
\* cloud generator and every other attribute it uses has been created:
\* no callback ends on an attribute that did not exist when it read it
C11_NoCallbackBeforeConstructed ==
    \A e \in cb_log : e.missing = {}

---------------------------------------------------------------------------
(* color_map and decode_segmap                                             *)

\* The largest N a call of color_map is given
MaxN == 256

\* 2^n
RECURSIVE Pow2(_)
Pow2(n) == IF n = 0 THEN 1 ELSE 2 * Pow2(n - 1)

\* x | y on naturals
RECURSIVE BitOr(_, _)
BitOr(x, y) ==
    IF x = 0 THEN y
    ELSE IF y = 0 THEN x
    ELSE (IF x % 2 = 1 \/ y % 2 = 1 THEN 1 ELSE 0)
            + 2 * BitOr(x \div 2, y \div 2)

\* lines 56-57: (byteval & (1 << idx)) != 0, as 0 or 1
bitget(byteval, idx) == (byteval \div Pow2(idx)) % 2

\* lines 64-68 with c >> 1 in place of c >> 3
RECURSIVE ColorLoop_shift1(_, _, _, _, _)
ColorLoop_shift1(c, j, r, g, b) ==
    IF j = 8 THEN <<r, g, b>>
    ELSE ColorLoop_shift1(c \div 2, j + 1,
                   BitOr(r, bitget(c, 0) * Pow2(7 - j)),
                   BitOr(g, bitget(c, 1) * Pow2(7 - j)),
                   BitOr(b, bitget(c, 2) * Pow2(7 - j)))

\* lines 64-68: the loop over j, from j with the accumulators r, g, b
RECURSIVE ColorLoop(_, _, _, _, _)
ColorLoop(c, j, r, g, b) ==
    IF j = 8 THEN <<r, g, b>>
    ELSE ColorLoop(c \div 8, j + 1,
                   BitOr(r, bitget(c, 0) * Pow2(7 - j)),
                   BitOr(g, bitget(c, 1) * Pow2(7 - j)),
                   BitOr(b, bitget(c, 2) * Pow2(7 - j)))

\* lines 62-69: cmap[i], stored as uint8
ColorEntry(i) ==
    LET rgb == ColorLoop(i, 0, 0, 0, 0)
    IN  <<rgb[1] % 256, rgb[2] % 256, rgb[3] % 256>>

\* lines 48-71 with normalized = False: the table, indexed 0 .. N-1
color_map(N) == [i \in 0..(N - 1) |-> ColorEntry(i)]

\* lines 74-93: every pixel whose label l is below n_classes gets cmap[l],
\* any other keeps its label in all three channels; the result is bgr, uint8
decode_segmap(temp, n_classes, cmap) ==
    [p \in DOMAIN temp |->
        IF temp[p] \in 0..(n_classes - 1)
          THEN <<cmap[temp[p]][3], cmap[temp[p]][2], cmap[temp[p]][1]>>
          ELSE <<temp[p] % 256, temp[p] % 256, temp[p] % 256>>]

\* The sizes a second call is made with, beside the first call's own
SecondSizes == {1, 21, MaxN}

CmInit ==
    /\ cm_N \in 0..MaxN
    /\ cm_calls = 0
    /\ cm_first = <<>>
    /\ cm_second = <<>>

\* a first call color_map(N)
ColorMapCall ==
    /\ cm_calls = 0
    /\ cm_first' = color_map(cm_N)
    /\ cm_calls' = 1
    /\ UNCHANGED <<cm_N, cm_second>>

\* a later call, with the same N or another
ColorMapCallAgain ==
    /\ cm_calls = 1
    /\ \E n \in {cm_N} \cup SecondSizes : cm_second' = color_map(n)
    /\ cm_calls' = 2
    /\ UNCHANGED <<cm_N, cm_first>>

InitColorMap == CtorInitIdle /\ CmInit /\ RmIdle /\ SyncIdle /\ FrIdle

NextColorMap ==
    \/ ColorMapCall /\ UNCHANGED <<ctorVars, rmVars, syncVars, frVars>>
    \/ ColorMapCallAgain /\ UNCHANGED <<ctorVars, rmVars, syncVars, frVars>>

SpecColorMap == InitColorMap /\ [][NextColorMap]_vars

\* Bit k of i, i < 2^24
BitOf(i, k) == (i \div Pow2(k)) % 2

\* The triple the bits of i spread to: bit 3j to R, bit 3j+1 to G,
\* bit 3j+2 to B, each at output bit 7-j
Spread(i) ==
    LET chan(o) ==
          BitOf(i, o) * 128 + BitOf(i, 3 + o) * 64 + BitOf(i, 6 + o) * 32
            + BitOf(i, 9 + o) * 16 + BitOf(i, 12 + o) * 8 + BitOf(i, 15 + o) * 4
            + BitOf(i, 18 + o) * 2 + BitOf(i, 21 + o)
    IN  <<chan(0), chan(1), chan(2)>>

\* C9: color_map(N) is a table over 0 .. N-1 whose entry i is the bit spread
\* of i (so it does not depend on N, and tables of two calls agree wherever
\* both are defined), and for N up to 256 no two entries are equal.
C9_ColorMapSpreadInjective ==
    /\ cm_calls >= 1 =>
          /\ DOMAIN cm_first = 0..(cm_N - 1)
          /\ \A i \in DOMAIN cm_first : cm_first[i] = Spread(i)
          /\ \A i \in DOMAIN cm_first : \A k \in DOMAIN cm_first :
                i < k => cm_first[i] # cm_first[k]
    /\ cm_calls = 2 =>
          \A i \in DOMAIN cm_first \cap DOMAIN cm_second :
              cm_second[i] = cm_first[i]

\* C9 witness: the full 256-entry table was built, and a shorter one after it
C9_Witness ==
    /\ cm_N = 256 /\ cm_calls = 2
    /\ DOMAIN cm_second = 0..20
    /\ cm_first[255] = <<224, 224, 192>>

---------------------------------------------------------------------------
(* Images, the model's output, remap and predict_max                       *)
(*                                                                         *)
(* An image or a per-pixel map is the sequence of its pixels in row-major  *)
(* order. A probability vector lists the raw classes 0, 1, ... in order,   *)
(* in percent.                                                             *)

\* /camera/width x /camera/height: the number of pixels of the sensor image
NumPixels == 2

\* The probability vectors a pixel of the model's output is drawn from
\* (three raw classes); the first one holds a tie
ProbVecs == {<<40, 40, 20>>, <<5, 25, 70>>}

\* The outputs of inference_segmentor(...)[0], at the size of the image
\* predict hands it (cnn_input_size is the sensor size, line 129)
ProbMaps == [1..NumPixels -> ProbVecs]

\* np.flip(x, axis=(0, 1)): the pixels in reverse order
Flip180(x) == [p \in 1..Len(x) |-> x[Len(x) + 1 - p]]

\* lines 449-478: what predict returns when the model returned model_out
\* (the model ran on the rotated image, line 471; line 476 rotates back)
predict(model_out) == Flip180(model_out)

\* np.max over the class axis
MaxOf(v) == CHOOSE x \in {v[k] : k \in 1..Len(v)} : \A k \in 1..Len(v) : v[k] <= x

\* np.argmax over the class axis: the first class holding the maximum
ArgMax(v) == (CHOOSE k \in 1..Len(v) :
                 /\ v[k] = MaxOf(v)
                 /\ \A q \in 1..(k - 1) : v[q] # MaxOf(v)) - 1

\* skimage resize(..., order=0, anti_aliasing=False): nearest neighbour;
\* output pixel j (from 0) samples the input at floor((j + 0.5) * n / w)
ResizeNearest(x, w) == [j \in 1..w |-> x[((2 * j - 1) * Len(x)) \div (2 * w) + 1]]

\* skimage resize(..., anti_aliasing=True) of an input that already has the
\* output's size w: scale 1, no smoothing, each pixel kept
ResizeSmooth(x, w) == [j \in 1..w |-> x[j]]

\* remap_classes_bool_indexing's default background_value
DefaultBackground == 7

\* lines 42-44 with enumerate starting at 1
RECURSIVE RemapLoop_from1(_, _, _, _)
RemapLoop_from1(input_classes, remap, i, output) ==
    IF i >= Len(remap) THEN output
    ELSE RemapLoop_from1(input_classes, remap, i + 1,
            [p \in DOMAIN output |->
                IF input_classes[p] = i + 1 THEN remap[i + 1] ELSE output[p]])

\* lines 42-44: the loop over enumerate(remap), from index i
RECURSIVE RemapLoop(_, _, _, _)
RemapLoop(input_classes, remap, i, output) ==
    IF i >= Len(remap) THEN output
    ELSE RemapLoop(input_classes, remap, i + 1,
            [p \in DOMAIN output |->
                IF input_classes[p] = i THEN remap[i + 1] ELSE output[p]])

\* lines 34-45; remap[i + 1] here is remap[i] there
remap_classes_bool_indexing(input_classes, remap, background_value) ==
    RemapLoop(input_classes, remap, 0,
              [p \in DOMAIN input_classes |-> 1 * background_value])

\* lines 375-383: the label map of predict_max after the remap
predict_max_labels(class_probs, remap) ==
    remap_classes_bool_indexing(
        [p \in DOMAIN class_probs |-> ArgMax(class_probs[p])],
        remap, DefaultBackground)

\* lines 370-405
predict_max(class_probs, remap, n_classes, cmap) ==
    [semantic_color |->
        decode_segmap(ResizeNearest(predict_max_labels(class_probs, remap), NumPixels),
                      n_classes, cmap),
     pred_confidence |->
        ResizeSmooth([p \in DOMAIN class_probs |-> MaxOf(class_probs[p])], NumPixels)]

\* The longest remap table, and the length of a label map given to remap
MaxTable == 2
MaxLabels == 3

\* Raw class ids of a label map: inside every table, inside some, outside all
RawLabels == {0, 1, 2, 9}

\* Entries of a remap table
TableEntries == {0, 5, 7}

RemapTables == UNION {[1..n -> TableEntries] : n \in 0..MaxTable}

RmInit ==
    /\ rm_pc = "start"
    /\ rm_remap \in RemapTables
    /\ rm_input \in [1..MaxLabels -> RawLabels]
    /\ rm_background \in {3, DefaultBackground}
    /\ rm_output = <<>>

\* a call remap_classes_bool_indexing(input, remap, background)
RemapCall ==
    /\ rm_pc = "start"
    /\ rm_output' = remap_classes_bool_indexing(rm_input, rm_remap, rm_background)
    /\ rm_pc' = "remapped"
    /\ UNCHANGED <<rm_remap, rm_input, rm_background>>

\* the label part of a call predict_max(img), the model returning model_out
PredictMaxCall ==
    /\ rm_pc = "start"
    /\ \E model_out \in ProbMaps :
          /\ rm_input' = predict(model_out)
          /\ rm_output' = predict_max_labels(predict(model_out), rm_remap)
    /\ rm_background' = DefaultBackground
    /\ rm_pc' = "predicted"
    /\ UNCHANGED rm_remap

InitRemap == CtorInitIdle /\ CmIdle /\ RmInit /\ SyncIdle /\ FrIdle

NextRemap ==
    \/ RemapCall /\ UNCHANGED <<ctorVars, cmVars, syncVars, frVars>>
    \/ PredictMaxCall /\ UNCHANGED <<ctorVars, cmVars, syncVars, frVars>>

SpecRemap == InitRemap /\ [][NextRemap]_vars

\* C4: remap replaces a raw id that is an index of the table by the table's
\* entry and every other raw id by the background id, for every pixel and
\* with no index error (table [5, 7], background 7, labels 0, 1, 9 give
\* 5, 7, 7); the labels of predict_max after remap are table entries or the
\* background id.
C4_RemapTotal ==
    /\ rm_pc = "remapped" =>
          /\ DOMAIN rm_output = DOMAIN rm_input
          /\ \A p \in DOMAIN rm_input :
                rm_output[p] = IF rm_input[p] >= 0 /\ rm_input[p] < Len(rm_remap)
                                 THEN rm_remap[rm_input[p] + 1]
                                 ELSE rm_background
          /\ (rm_remap = <<5, 7>> /\ rm_background = 7 /\ rm_input = <<0, 1, 9>>)
                => rm_output = <<5, 7, 7>>
    /\ rm_pc = "predicted" =>
          /\ DOMAIN rm_output = DOMAIN rm_input
          /\ \A p \in DOMAIN rm_output :
                rm_output[p] \in {rm_remap[k] : k \in 1..Len(rm_remap)} \cup {7}

\* C4 witness: the example of the claim was computed
C4_Witness ==
    /\ rm_pc = "remapped"
    /\ rm_remap = <<5, 7>> /\ rm_background = 7 /\ rm_input = <<0, 1, 9>>
    /\ rm_output = <<5, 7, 7>>

---------------------------------------------------------------------------
(* The synchronizer of lines 202-224                                       *)
(*                                                                         *)
(* message_filters.ApproximateTimeSynchronizer is a library; its pairing   *)
(* is modelled from the specification's FrameSynchronizer, with the        *)
(* queue_size and slop the source gives it. Stamps are in tenths.          *)

\* line 221: slop = 0.3, widened
Slop_wide == 2 + 3

\* line 221: slop = 0.3
Slop == 3

\* line 221: queue_size = 1
QueueSize == 1

\* The messages a stream delivers, and the largest capture stamp
MaxMsgs == 3
MaxStamp == 5

Streams == {"color", "lidar"}

OtherStream(s) == IF s = "color" THEN "lidar" ELSE "color"

\* The queue after a message is put in: the oldest go when it is too long
Enqueue(q, m) ==
    LET all == Append(q, m)
    IN  IF Len(all) > QueueSize
          THEN SubSeq(all, Len(all) - QueueSize + 1, Len(all))
          ELSE all

\* The most recent unpaired message of queue q whose stamp is within the
\* slop of m's (0 when there is none)
Match(q, m) ==
    LET ok == {k \in 1..Len(q) : Abs(q[k].stamp - m.stamp) <= Slop}
    IN  IF ok = {} THEN 0 ELSE CHOOSE k \in ok : \A j \in ok : j <= k

\* q without its k-th message
Without(q, k) == SubSeq(q, 1, k - 1) \o SubSeq(q, k + 1, Len(q))

SyncInit ==
    /\ sync_queue = [s \in Streams |-> <<>>]
    /\ sync_count = [s \in Streams |-> 0]
    /\ sync_stamp = [s \in Streams |-> 0]
    /\ sync_calls = <<>>

\* A message with capture stamp t arrives on stream s (a sensor's stamps
\* never go back): it is queued (an
\* older pending one of its stream is dropped), and when the other stream
\* holds a message within the slop the registered callback
\* (color_lidar_callback, line 224) is called with the pair, which leaves
\* the queues
Arrive(s, t) ==
    /\ sync_count[s] < MaxMsgs
    /\ t >= sync_stamp[s]
    /\ sync_stamp' = [sync_stamp EXCEPT ![s] = t]
    /\ LET m == [id |-> sync_count[s] + 1, stamp |-> t]
           o == OtherStream(s)
           k == Match(sync_queue[o], m)
       IN  /\ sync_count' = [sync_count EXCEPT ![s] = @ + 1]
           /\ IF k = 0
                THEN /\ sync_queue' = [sync_queue EXCEPT ![s] = Enqueue(@, m)]
                     /\ sync_calls' = sync_calls
                ELSE /\ sync_queue' =
                            [sync_queue EXCEPT
                               ![s] = LET q == Enqueue(@, m) IN Without(q, Len(q)),
                               ![o] = Without(@, k)]
                     /\ sync_calls' = Append(sync_calls,
                            [color |-> IF s = "color" THEN m ELSE sync_queue[o][k],
                             lidar |-> IF s = "lidar" THEN m ELSE sync_queue[o][k]])

ColorArrive == \E t \in 0..MaxStamp : Arrive("color", t)

LidarArrive == \E t \in 0..MaxStamp : Arrive("lidar", t)

InitSync == CtorInitIdle /\ CmIdle /\ RmIdle /\ SyncInit /\ FrIdle

NextSync ==
    \/ ColorArrive /\ UNCHANGED <<ctorVars, cmVars, rmVars, frVars>>
    \/ LidarArrive /\ UNCHANGED <<ctorVars, cmVars, rmVars, frVars>>

SpecSync == InitSync /\ [][NextSync]_vars

\* C5: at most one unpaired message is held per stream, and it is the latest
\* arrival of its stream; the callback is called only with an image and a
\* scan whose stamps differ by at most 0.3; no message is in two pairs.
C5_DepthOneWithinSlop ==
    /\ \A s \in Streams :
          /\ Len(sync_queue[s]) <= 1
          /\ Len(sync_queue[s]) = 1 => sync_queue[s][1].id = sync_count[s]
    /\ \A i \in 1..Len(sync_calls) :
          /\ sync_calls[i].color.stamp - sync_calls[i].lidar.stamp \in -3..3
          /\ \A j \in 1..Len(sync_calls) :
                i # j => /\ sync_calls[i].color.id # sync_calls[j].color.id
                         /\ sync_calls[i].lidar.id # sync_calls[j].lidar.id

\* C5 witness: an image replaced an older pending one and was then paired
\* with a scan 0.3 away, and a second pair was delivered after it
C5_Witness ==
    /\ Len(sync_calls) = 2
    /\ sync_calls[1].color.id = 2
    /\ sync_calls[1].lidar.id = 1
    /\ Abs(sync_calls[1].color.stamp - sync_calls[1].lidar.stamp) = 3

---------------------------------------------------------------------------
(* Frames: color_lidar_callback, predict_bayesian, intrinsics_calback      *)
(*                                                                         *)
(* rospy runs the callbacks of different topics on different threads, so   *)
(* intrinsics_calback and a change of the semantic image's consumers may   *)
(* fall between any two steps of color_lidar_callback. The synchronizer    *)
(* calls color_lidar_callback for one pair at a time.                      *)
(*                                                                         *)
(* ColorPclGenerator (color_pcl_generator) is not part of the source at    *)
(* hand: set_intrinsics is modelled as the replacement of the whole matrix *)
(* (specification, 4.1) and a generate_cloud_* call as one read of it.     *)

\* The synchronized pairs delivered, and the calibration messages delivered
MaxFrames == 2
MaxCalib == 1

\* /semantic_pcl/num_classes (line 141) and /semantic_pcl/class_remap (161)
num_classes == 6
class_remap == <<5, 7>>

\* line 142
cmap == color_map(num_classes)

\* line 418: k = 3, and line 170: three slots
TopK == 3
BufferSlots == 3

\* lines 190-198: [[fx, 0, cx], [0, fy, cy], [0, 0, 1]] from the parameters
InitialIntrinsic == << <<1, 0, 2>>, <<0, 3, 4>>, <<0, 0, 1>> >>

\* CameraInfo.K of the calibration messages: nine numbers, row-major
CalibMsgs == { <<11, 0, 12, 0, 13, 14, 0, 0, 1>>,
               <<21, 0, 22, 0, 23, 24, 0, 0, 1>> }

\* lines 257-258: np.array(intrinsics.K).reshape((3, 3))
ReshapeK(K) == [i \in 1..3 |-> [j \in 1..3 |-> K[3 * (i - 1) + j]]]

\* How ros_numpy.numpify ends on the image and on the scan of a pair
DecodeOutcomes ==
    {"ok", "image_CvBridgeError", "lidar_CvBridgeError", "image_error", "lidar_error"}

\* lines 311-319: the exception that leaves the callback ("none" when the
\* pair decodes). Only CvBridgeError is caught (line 316); after it is
\* caught, line 319 reads lidar, which was never bound.
DecodeException(d) ==
    IF d = "ok" THEN "none"
    ELSE IF d \in {"image_CvBridgeError", "lidar_CvBridgeError"}
      THEN "UnboundLocalError"
    ELSE "numpify"

\* line 317: print(e) runs for a caught CvBridgeError
DecodeLogged(d) == d \in {"image_CvBridgeError", "lidar_CvBridgeError"}

\* lines 167-174: np.zeros buffers, three slots of NumPixels pixels
ZeroBuffers ==
    [semantic_colors |-> [i \in 1..BufferSlots |-> [p \in 1..NumPixels |-> <<0, 0, 0>>]],
     confidences |-> [i \in 1..BufferSlots |-> [p \in 1..NumPixels |-> 0]]]

\* lines 416-422: torch.topk(k=3, largest, sorted) on one pixel: the rankings
\* of three different classes, best first; the order among equal
\* probabilities is not fixed
TopKRankings(v) ==
    {r \in [1..TopK -> 0..(Len(v) - 1)] :
        /\ \A a, b \in 1..TopK : a < b => r[a] # r[b] /\ v[r[a] + 1] >= v[r[b] + 1]
        /\ \A c \in 0..(Len(v) - 1) :
              (\A a \in 1..TopK : r[a] # c) => v[c + 1] <= v[r[TopK] + 1]}

\* torch.topk's labels for the first n pixels of class_probs: one ranking
\* for each pixel
RECURSIVE TopKLabels(_, _)
TopKLabels(class_probs, n) ==
    IF n = 0 THEN {<<>>}
    ELSE {Append(l, r) : l \in TopKLabels(class_probs, n - 1),
                         r \in TopKRankings(class_probs[n])}

\* predict_bayesian writing the first two slots only
predict_bayesian_two(old, class_probs, pred_labels) ==
    [semantic_colors |->
        [i \in 1..BufferSlots |->
            IF i <= 2
              THEN decode_segmap(
                     ResizeNearest([p \in DOMAIN pred_labels |-> pred_labels[p][i]],
                                   NumPixels),
                     num_classes, cmap)
              ELSE old.semantic_colors[i]],
     confidences |->
        [i \in 1..BufferSlots |->
            IF i <= 2
              THEN ResizeSmooth(
                     [p \in DOMAIN pred_labels |-> class_probs[p][pred_labels[p][i] + 1]],
                     NumPixels)
              ELSE old.confidences[i]]]

\* lines 423-447: the buffers after predict_bayesian, given the buffers
\* before, the probabilities and topk's labels: slot i is assigned for each
\* of the k ranks
predict_bayesian(old, class_probs, pred_labels) ==
    [semantic_colors |->
        [i \in 1..BufferSlots |->
            IF i <= TopK
              THEN decode_segmap(
                     ResizeNearest([p \in DOMAIN pred_labels |-> pred_labels[p][i]],
                                   NumPixels),
                     num_classes, cmap)
              ELSE old.semantic_colors[i]],
     confidences |->
        [i \in 1..BufferSlots |->
            IF i <= TopK
              THEN ResizeSmooth(
                     [p \in DOMAIN pred_labels |-> class_probs[p][pred_labels[p][i] + 1]],
                     NumPixels)
              ELSE old.confidences[i]]]

\* The record of a frame as color_lidar_callback is entered
NewFrame(n, d, b) ==
    [n |-> n, decode |-> d, exception |-> "none", logged |-> FALSE,
     model_result |-> "none", model_calls |-> 0, class_probs |-> <<>>,
     semantic_color |-> <<>>, pred_confidence |-> <<>>,
     gen_calls |-> <<>>, connections |-> -1, sem_pubs |-> <<>>, pcl_pubs |-> 0,
     start_buffers |-> b]

\* The extrinsics of a constructed node: they passed lines 135-139
FrameExtrinsics == {Homogeneous(Block(Unit, Unit, Unit, 0, 0, 0)), Homogeneous(RotZ90)}

FrInit ==
    /\ fr_mode \in {COLOR, SEMANTICS_MAX, SEMANTICS_BAYESIAN}
    /\ fr_extrinsics \in FrameExtrinsics
    /\ fr_pc = "idle"
    /\ fr = NewFrame(0, "ok", <<>>)
    /\ prev_exception = "none"
    /\ buffers = IF fr_mode = SEMANTICS_BAYESIAN THEN ZeroBuffers ELSE <<>>
    /\ gen_intrinsic = InitialIntrinsic
    /\ in_pc = "idle"
    /\ in_K = <<>>
    /\ n_calib = 0
    /\ num_connections \in {0, 1}

\* lines 304-319: the callback is entered with a pair and decodes it
FrameStart ==
    /\ fr_pc = "idle"
    /\ fr.n < MaxFrames
    /\ \E d \in DecodeOutcomes :
          /\ fr' = [NewFrame(fr.n + 1, d, buffers) EXCEPT
                       !.exception = DecodeException(d),
                       !.logged = DecodeLogged(d)]
          /\ fr_pc' = IF DecodeException(d) = "none" THEN "decoded" ELSE "idle"
    /\ prev_exception' = fr.exception
    /\ UNCHANGED <<fr_mode, fr_extrinsics, buffers, gen_intrinsic, in_pc, in_K,
                   n_calib, num_connections>>

\* PredictMax with the model's exception swallowed
PredictMax_swallow ==
    /\ fr_pc = "decoded"
    /\ fr_mode = SEMANTICS_MAX
    /\ \/ /\ fr' = [fr EXCEPT !.model_calls = @ + 1, !.model_result = "raised"]
          /\ fr_pc' = "predicted"
       \/ \E model_out \in ProbMaps :
             LET out == predict_max(predict(model_out), class_remap, num_classes, cmap)
             IN  /\ fr' = [fr EXCEPT !.model_calls = @ + 1,
                                     !.model_result = "ok",
                                     !.class_probs = predict(model_out),
                                     !.semantic_color = out.semantic_color,
                                     !.pred_confidence = out.pred_confidence]
                 /\ fr_pc' = "predicted"
    /\ UNCHANGED <<fr_mode, fr_extrinsics, prev_exception, buffers, gen_intrinsic,
                   in_pc, in_K, n_calib, num_connections>>

\* line 328: predict_max(color_img); inference_segmentor (line 473) raises,
\* and nothing catches it, or returns model_out
PredictMax ==
    /\ fr_pc = "decoded"
    /\ fr_mode = SEMANTICS_MAX
    /\ \/ /\ fr' = [fr EXCEPT !.model_calls = @ + 1, !.model_result = "raised",
                              !.exception = "model"]
          /\ fr_pc' = "idle"
       \/ \E model_out \in ProbMaps :
             LET out == predict_max(predict(model_out), class_remap, num_classes, cmap)
             IN  /\ fr' = [fr EXCEPT !.model_calls = @ + 1,
                                     !.model_result = "ok",
                                     !.class_probs = predict(model_out),
                                     !.semantic_color = out.semantic_color,
                                     !.pred_confidence = out.pred_confidence]
                 /\ fr_pc' = "predicted"
    /\ UNCHANGED <<fr_mode, fr_extrinsics, prev_exception, buffers, gen_intrinsic,
                   in_pc, in_K, n_calib, num_connections>>

\* line 342: predict_bayesian(color_img)
PredictBayesian ==
    /\ fr_pc = "decoded"
    /\ fr_mode = SEMANTICS_BAYESIAN
    /\ \/ /\ fr' = [fr EXCEPT !.model_calls = @ + 1, !.model_result = "raised",
                              !.exception = "model"]
          /\ fr_pc' = "idle"
          /\ buffers' = buffers
       \/ \E model_out \in ProbMaps :
             \E pred_labels \in TopKLabels(predict(model_out), NumPixels) :
                /\ fr' = [fr EXCEPT !.model_calls = @ + 1,
                                    !.model_result = "ok",
                                    !.class_probs = predict(model_out)]
                /\ buffers' = predict_bayesian(buffers, predict(model_out), pred_labels)
                /\ fr_pc' = "predicted"
    /\ UNCHANGED <<fr_mode, fr_extrinsics, prev_exception, gen_intrinsic,
                   in_pc, in_K, n_calib, num_connections>>

\* The cloud generator's generate_cloud_* call: what the call site hands it.
\* How the generator reads its intrinsic matrix while it projects is not
\* in the source and is not modelled
GeneratorCall(variant, semantic, confidence, extr) ==
    [variant |-> variant, stamp |-> fr.n, semantic |-> semantic,
     confidence |-> confidence, extrinsics |-> extr]

\* lines 321-353: the generate_cloud_* call of the node's mode
GenerateCloud ==
    /\ \/ fr_pc = "decoded" /\ fr_mode = COLOR
       \/ fr_pc = "predicted"
    /\ fr' = [fr EXCEPT !.gen_calls = Append(@,
                 IF fr_mode = COLOR
                   THEN GeneratorCall("generate_cloud_color", <<>>, <<>>, <<>>)
                 ELSE IF fr_mode = SEMANTICS_MAX
                   THEN GeneratorCall("generate_cloud_semantic_max",
                            fr.semantic_color, fr.pred_confidence, fr_extrinsics)
                 ELSE GeneratorCall("generate_cloud_semantic_bayesian",
                            buffers.semantic_colors, buffers.confidences, fr_extrinsics))]
    /\ fr_pc' = IF fr_mode = COLOR THEN "publish_cloud" ELSE "publish_semantic"
    /\ UNCHANGED <<fr_mode, fr_extrinsics, prev_exception, buffers, gen_intrinsic,
                   in_pc, in_K, n_calib, num_connections>>

\* PublishSemantic without the test of line 356
PublishSemantic_always ==
    /\ fr_pc = "publish_semantic"
    /\ fr' = [fr EXCEPT
                !.connections = num_connections,
                !.sem_pubs = Append(@, IF fr_mode = SEMANTICS_MAX
                                         THEN fr.semantic_color
                                         ELSE buffers.semantic_colors[1])]
    /\ fr_pc' = "publish_cloud"
    /\ UNCHANGED <<fr_mode, fr_extrinsics, prev_exception, buffers, gen_intrinsic,
                   in_pc, in_K, n_calib, num_connections>>

\* lines 355-365: the semantic image, when a consumer is connected
PublishSemantic ==
    /\ fr_pc = "publish_semantic"
    /\ fr' = [fr EXCEPT
                !.connections = num_connections,
                !.sem_pubs = IF num_connections > 0
                               THEN Append(@, IF fr_mode = SEMANTICS_MAX
                                                THEN fr.semantic_color
                                                ELSE buffers.semantic_colors[1])
                               ELSE @]
    /\ fr_pc' = "publish_cloud"
    /\ UNCHANGED <<fr_mode, fr_extrinsics, prev_exception, buffers, gen_intrinsic,
                   in_pc, in_K, n_calib, num_connections>>

\* lines 367-368
PublishCloud ==
    /\ fr_pc = "publish_cloud"
    /\ fr' = [fr EXCEPT !.pcl_pubs = @ + 1]
    /\ fr_pc' = "idle"
    /\ UNCHANGED <<fr_mode, fr_extrinsics, prev_exception, buffers, gen_intrinsic,
                   in_pc, in_K, n_calib, num_connections>>

\* lines 256-258: a calibration message arrives; K is built from it
IntrinsicsReshape ==
    /\ in_pc = "idle"
    /\ n_calib < MaxCalib
    /\ \E K \in CalibMsgs : in_K' = ReshapeK(K)
    /\ in_pc' = "set"
    /\ n_calib' = n_calib + 1
    /\ UNCHANGED <<fr_mode, fr_extrinsics, fr_pc, fr, prev_exception, buffers,
                   gen_intrinsic, num_connections>>

\* line 259: self.cloud_generator.set_intrinsics(K). The callback hands over
\* the whole of K in one call; that the generator then replaces its matrix
\* as a whole is the calibration store's updateIntrinsics as specified,
\* ColorPclGenerator.set_intrinsics itself not being in the source
IntrinsicsSet ==
    /\ in_pc = "set"
    /\ gen_intrinsic' = in_K
    /\ in_pc' = "idle"
    /\ UNCHANGED <<fr_mode, fr_extrinsics, fr_pc, fr, prev_exception, buffers,
                   in_K, n_calib, num_connections>>

\* A consumer of /semantic_pcl/semantic_image connects or disconnects
ConsumerChange ==
    /\ num_connections' = 1 - num_connections
    /\ UNCHANGED <<fr_mode, fr_extrinsics, fr_pc, fr, prev_exception, buffers,
                   gen_intrinsic, in_pc, in_K, n_calib>>

InitFrame == CtorInitIdle /\ CmIdle /\ RmIdle /\ SyncIdle /\ FrInit

NextFrame ==
    \/ FrameStart /\ UNCHANGED <<ctorVars, cmVars, rmVars, syncVars>>
    \/ PredictMax /\ UNCHANGED <<ctorVars, cmVars, rmVars, syncVars>>
    \/ PredictBayesian /\ UNCHANGED <<ctorVars, cmVars, rmVars, syncVars>>
    \/ GenerateCloud /\ UNCHANGED <<ctorVars, cmVars, rmVars, syncVars>>
    \/ PublishSemantic /\ UNCHANGED <<ctorVars, cmVars, rmVars, syncVars>>
    \/ PublishCloud /\ UNCHANGED <<ctorVars, cmVars, rmVars, syncVars>>
    \/ IntrinsicsReshape /\ UNCHANGED <<ctorVars, cmVars, rmVars, syncVars>>
    \/ IntrinsicsSet /\ UNCHANGED <<ctorVars, cmVars, rmVars, syncVars>>
    \/ ConsumerChange /\ UNCHANGED <<ctorVars, cmVars, rmVars, syncVars>>

SpecFrame == InitFrame /\ [][NextFrame]_vars

---------------------------------------------------------------------------
(* Claims about frames, checked under SpecFrame                            *)

\* color_lidar_callback has returned, or an exception has left it
FrameEnded == fr_pc = "idle" /\ fr.n > 0

\* C3: a pair whose image or scan fails to decode is logged and dropped: no
\* exception leaves the callback, and nothing is generated or published.
C3_DecodeFailureDropped ==
    (FrameEnded /\ fr.decode # "ok") =>
        /\ fr.exception = "none"
        /\ fr.logged
        /\ fr.gen_calls = <<>> /\ fr.sem_pubs = <<>> /\ fr.pcl_pubs = 0

Above(v, x) == Cardinality({c \in 1..Len(v) : v[c] > x})
NotBelow(v, x) == Cardinality({c \in 1..Len(v) : v[c] >= x})

\* The bgr colour of each class below num_classes: its bit spread, reversed
ClassColour ==
    [c \in 0..(num_classes - 1) |-> <<Spread(c)[3], Spread(c)[2], Spread(c)[1]>>]

\* C8: the buffers always hold 3 slots of NumPixels pixels; after a
\* successful predict_bayesian every pixel of slot k holds the colour and the
\* probability of a class of rank k in the current frame's probabilities,
\* the three slots of a pixel holding three different classes.
C8_BuffersFromCurrentFrame ==
    fr_mode = SEMANTICS_BAYESIAN =>
        /\ Len(buffers.semantic_colors) = 3 /\ Len(buffers.confidences) = 3
        /\ \A k \in 1..3 : /\ Len(buffers.semantic_colors[k]) = NumPixels
                           /\ Len(buffers.confidences[k]) = NumPixels
        /\ fr.model_result = "ok" =>
              \A p \in 1..NumPixels :
                 LET v == fr.class_probs[p]
                     colour(k) == buffers.semantic_colors[k][p]
                 IN  /\ colour(1) # colour(2) /\ colour(1) # colour(3)
                     /\ colour(2) # colour(3)
                     /\ \A k \in 1..3 :
                           \E c \in 0..(Len(v) - 1) :
                              /\ colour(k) = ClassColour[c]
                              /\ buffers.confidences[k][p] = v[c + 1]
                              /\ Above(v, v[c + 1]) <= k - 1
                              /\ NotBelow(v, v[c + 1]) >= k

\* C8 witness: a second frame replaced the values the first had left
C8_Witness ==
    /\ fr_mode = SEMANTICS_BAYESIAN
    /\ fr.model_result = "ok" /\ fr.n = 2 /\ prev_exception = "none"
    /\ fr.start_buffers # ZeroBuffers
    /\ \A k \in 1..3 : \A p \in 1..NumPixels :
          buffers.confidences[k][p] # fr.start_buffers.confidences[k][p]

\* C10: a pair processed without error gives one generator call, of the
\* mode's variant, and one published cloud; in COLOR mode no model call and
\* no semantic image; in the semantic modes one model call, the extrinsics
\* handed to the generator, and one semantic image exactly when
\* get_num_connections() was above 0.
C10_ModeDispatch ==
    /\ fr.model_calls <= 1 /\ Len(fr.gen_calls) <= 1
    /\ Len(fr.sem_pubs) <= 1 /\ fr.pcl_pubs <= 1
    /\ (FrameEnded /\ fr.exception = "none") =>
          /\ Len(fr.gen_calls) = 1
          /\ fr.gen_calls[1].stamp = fr.n
          /\ fr.pcl_pubs = 1
          /\ fr_mode = COLOR =>
                /\ fr.gen_calls[1].variant = "generate_cloud_color"
                /\ fr.model_calls = 0
                /\ fr.sem_pubs = <<>>
          /\ fr_mode = SEMANTICS_MAX =>
                /\ fr.gen_calls[1].variant = "generate_cloud_semantic_max"
                /\ fr.model_calls = 1
                /\ fr.gen_calls[1].extrinsics = fr_extrinsics
                /\ Len(fr.sem_pubs) = (IF fr.connections > 0 THEN 1 ELSE 0)
          /\ fr_mode = SEMANTICS_BAYESIAN =>
                /\ fr.gen_calls[1].variant = "generate_cloud_semantic_bayesian"
                /\ fr.model_calls = 1
                /\ fr.gen_calls[1].extrinsics = fr_extrinsics
                /\ Len(fr.sem_pubs) = (IF fr.connections > 0 THEN 1 ELSE 0)

\* C10 witness: a frame of max fusion ended with its cloud published and no
\* semantic image, no consumer being connected when line 356 asked
C10_Witness ==
    /\ FrameEnded /\ fr.exception = "none"
    /\ fr_mode = SEMANTICS_MAX
    /\ fr.connections = 0 /\ fr.sem_pubs = <<>> /\ fr.pcl_pubs = 1
    /\ num_connections = 1

====
